---------------------------- MODULE Spec2Model ----------------------------
(***************************************************************************)
(* A model of mage_ai: the endpoints of the server that write the stored   *)
(* pipelines and the feature set (src/mage_ai/server/app.py), served on    *)
(* threads that interleave at every access to the store, and the rule      *)
(* helpers of the data cleaner                                             *)
(* (src/mage_ai/data_cleaner/cleaning_rules/base.py).                      *)
(*                                                                         *)
(* Python's None is the string "None" where the value is a string and -1   *)
(* where it is a length.                                                   *)
(***************************************************************************)
EXTENDS Integers, Sequences, FiniteSets, TLC

VARIABLES
    stored,       \* Pipeline(id).pipeline.actions: the stored action list of each pipeline
    fs_data,      \* the feature set's latest written result (FeatureSet.write_files)
    fs_version,   \* the prev_version the feature set's last write recorded, -1 for none
    fs_writer,    \* the endpoint that made the feature set's latest write
    api_key,      \* the global api_key of server/app.py
    served,       \* how many requests the server has taken
    req,          \* per worker thread: the locals of the endpoint call it runs
    heap,         \* the lists and mappings suggestions refer to, by reference
    built,        \* the suggestions built, each with the fields its call omitted
    mutator,      \* the suggestion whose payload containers were mutated, 0 for none
    frames,       \* the dataframes a rule works on, by reference
    rule,         \* a BaseRule: self.df, self.df_columns, self.column_types, self.statistics
    out           \* what the last call of each rule helper returned or raised

serverVars == <<stored, fs_data, fs_version, fs_writer, api_key, served, req>>

factoryVars == <<heap, built, mutator>>

ruleVars == <<frames, rule, out>>

vars == <<stored, fs_data, fs_version, fs_writer, api_key, served, req,
          heap, built, mutator, frames, rule, out>>

-----------------------------------------------------------------------------
(* Bounds and universes                                                    *)

\* The longest action list a request submits.
MaxActions == 2

\* The worker threads of the server (Flask serves each request on a thread).
Threads == {"t1", "t2"}

\* The most requests the server takes in a run.
MaxRequests == 2

\* The stored pipelines: p1 belongs to feature set f1, p2 to none.
Pipelines == {"p1", "p2"}

\* pipeline.metadata.get('feature_set_id')
FeatureSetIdOf(id) == IF id = "p1" THEN "f1" ELSE "None"

\* The actions a request can submit: one without a title, one with.
RemoveC1 == [action_type |-> "remove", column |-> "c1", title |-> ""]

ImputeC1 == [action_type |-> "impute", column |-> "c1", title |-> "Fill c1"]

SubmittedActions == {RemoveC1, ImputeC1}

RECURSIVE SeqsUpTo(_, _)
SeqsUpTo(S, n) ==
    IF n = 0 THEN {<<>>}
    ELSE LET shorter == SeqsUpTo(S, n - 1)
         IN  shorter \cup {Append(s, x) : s \in {q \in shorter : Len(q) = n - 1}, x \in S}

ActionLists == SeqsUpTo(SubmittedActions, MaxActions)

\* request.json: the 'actions' field may be absent.
Bodies ==
    {[has_actions |-> FALSE, actions |-> <<>>]}
        \cup {[has_actions |-> TRUE, actions |-> a] : a \in ActionLists}

\* What launch() can be given as mage_api_key.
LaunchKeys == {"None", "", "key"}

\* What a call of sync_pipeline can do: return, or raise.
SyncOutcomes == {"ok", "raise"}

\* feature_set.data_orig: the columns of the original data, and those imputed.
data_orig == [columns |-> {"c1", "c2"}, imputed |-> {}]

\* The feature sets process() is asked for: request_data['id'] may be empty.
ProcessIds == {"", "f1"}

\* request.json of PUT /feature_sets/<id>: metadata, statistics, insights and
\* suggestions, with or without data ('df').
FeatureSetBodies ==
    {[has_df |-> FALSE, df |-> data_orig],
     [has_df |-> TRUE, df |-> [columns |-> {"c1"}, imputed |-> {}]]}

-----------------------------------------------------------------------------
(* External collaborators of update_pipeline                               *)

\* request_data.get('actions', [])
GetActions(body) == IF body.has_actions THEN body.actions ELSE <<>>

\* generate_action_titles: fills the title of an action that has none.
generate_action_titles(actions) ==
    [i \in 1..Len(actions) |->
        IF actions[i].title = ""
        THEN [actions[i] EXCEPT !.title = "generated"]
        ELSE actions[i]]

\* One action applied to a dataset: it needs its column ("resolution error").
ApplyAction(df, a) ==
    IF a.column \notin df.columns THEN [raised |-> TRUE, df |-> df]
    ELSE IF a.action_type = "remove"
         THEN [raised |-> FALSE,
               df |-> [columns |-> df.columns \ {a.column},
                       imputed |-> df.imputed \ {a.column}]]
         ELSE [raised |-> FALSE,
               df |-> [df EXCEPT !.imputed = @ \cup {a.column}]]

\* BasePipeline.transform: the fold of the actions over the dataset, in list
\* order; the first action that fails aborts the fold.
RECURSIVE transform(_, _)
transform(df, actions) ==
    IF actions = <<>> THEN [raised |-> FALSE, df |-> df]
    ELSE LET r == ApplyAction(df, Head(actions))
         IN  IF r.raised THEN r ELSE transform(r.df, Tail(actions))

\* clean_data(df_transformed, ..., transform=False): the result carries the
\* dataset it was given.
clean_data(df) == [df |-> df]

\* clean_data(df) with its defaults cleans the dataset by the actions it
\* suggests itself: the results it can carry are the dataset as given and the
\* dataset with its columns imputed.  analyze(df) leaves the dataset as given.
CleanResults(df, clean) ==
    IF clean THEN {[df |-> df], [df |-> [df EXCEPT !.imputed = df.columns]]}
    ELSE {[df |-> df]}

-----------------------------------------------------------------------------
(* The state update_pipeline works on                                      *)

World == [stored |-> stored, fs_data |-> fs_data, fs_version |-> fs_version,
          fs_writer |-> fs_writer, api_key |-> api_key]

NoResponse == [kind |-> "none", code |-> 0, actions |-> <<>>]

\* The locals of one call, before the request arrives.  replaced, superseded,
\* recorded and sync_log are history: what the call has done (sync_log holds,
\* for each call of sync_pipeline, the key it was given and whether the
\* replacement had been made).
IdleReq ==
    [op |-> "none", pc |-> "idle", id |-> "None",
     body |-> [has_actions |-> FALSE, actions |-> <<>>], clean |-> TRUE,
     sync |-> "ok", actions |-> <<>>, df |-> data_orig, prev_version |-> -1,
     exception |-> "None", response |-> NoResponse,
     replaced |-> FALSE, superseded |-> -1, recorded |-> -1, sync_log |-> <<>>]

\* An exception leaves the endpoint for the handler of rescue_errors.
Raise(w, l, exc) == [w |-> w, l |-> [l EXCEPT !.pc = "rescue", !.exception = exc]]

\* Lines 295-303: the request is read and the branch chosen.
StepBegin(w, id, body) ==
    [w |-> w,
     l |-> [IdleReq EXCEPT
              !.op = "update_pipeline",
              !.pc = IF FeatureSetIdOf(id) /= "None" THEN "transform" ELSE "replace_only",
              !.id = id, !.body = body,
              !.actions = generate_action_titles(GetActions(body))]]

\* A slip: the pipeline is stored before its actions are replayed.
StepTransformAfterStoring(w, l) ==
    LET r == transform(data_orig, l.actions)
        stored_first == [w EXCEPT !.stored[l.id] = l.actions]
    IN  IF r.raised THEN Raise(stored_first, l, "transform")
        ELSE [w |-> w, l |-> [l EXCEPT !.pc = "prev_version", !.df = clean_data(r.df).df]]

\* Lines 304-311: the submitted actions are replayed over the original data.
StepTransform(w, l) ==
    LET r == transform(data_orig, l.actions)
    IN  IF r.raised THEN Raise(w, l, "transform")
        ELSE [w |-> w, l |-> [l EXCEPT !.pc = "prev_version", !.df = clean_data(r.df).df]]

\* Line 312: prev_version = len(pipeline.pipeline.actions)
StepPrevVersion(w, l) ==
    [w |-> w, l |-> [l EXCEPT !.pc = "replace", !.prev_version = Len(w.stored[l.id])]]

\* A slip: the submitted actions are appended to the stored ones.
ReplacementAppending(old, new) == old \o new

\* The action list the assignment pipeline.pipeline = clean_pipeline stores.
Replacement(old, new) == new

\* Line 313: pipeline.pipeline = clean_pipeline
StepReplace(w, l) ==
    [w |-> [w EXCEPT !.stored[l.id] = Replacement(@, l.actions)],
     l |-> [l EXCEPT !.pc = "write_files", !.replaced = TRUE,
                     !.superseded = Len(w.stored[l.id])]]

\* Line 314: feature_set.write_files(result, prev_version=prev_version)
StepWriteFiles(w, l) ==
    [w |-> [w EXCEPT !.fs_data = l.df, !.fs_version = l.prev_version,
                     !.fs_writer = "update_pipeline"],
     l |-> [l EXCEPT !.pc = "sync", !.recorded = l.prev_version]]

\* Line 316: pipeline.pipeline = clean_pipeline, for a pipeline of no feature set
StepReplaceOnly(w, l) ==
    [w |-> [w EXCEPT !.stored[l.id] = Replacement(@, l.actions)],
     l |-> [l EXCEPT !.pc = "sync", !.replaced = TRUE,
                     !.superseded = Len(w.stored[l.id])]]

\* A slip: the sync is made whether or not a key is set.
SyncAlways(w, l) == TRUE

\* Whether line 318 lets the call reach sync_pipeline.
SyncWanted(w, l) == w.api_key /= "None"

\* Lines 318-319: if api_key is not None: pipeline.sync_pipeline(api_key);
\* outcome is what the call of sync_pipeline does.
StepSync(w, l, outcome) ==
    IF SyncWanted(w, l)
    THEN LET called == [l EXCEPT !.sync = outcome, !.sync_log =
                            Append(@, [key |-> w.api_key, replaced |-> l.replaced])]
         IN  IF outcome = "raise" THEN Raise(w, called, "sync")
             ELSE [w |-> w, l |-> [called EXCEPT !.pc = "respond"]]
    ELSE [w |-> w, l |-> [l EXCEPT !.pc = "respond"]]

\* Lines 321-326: the response is pipeline.to_dict(), read from the store.
StepRespond(w, l) ==
    [w |-> w,
     l |-> [l EXCEPT !.pc = "done",
                     !.response = [kind |-> "ok", code |-> 200,
                                   actions |-> w.stored[l.id]]]]

\* rescue_errors, lines 38-55: the exception becomes an error response.
StepRescue(w, l) ==
    [w |-> w,
     l |-> [l EXCEPT !.pc = "done",
                     !.response = [kind |-> "error", code |-> 500, actions |-> <<>>]]]

\* process(), lines 91-101: the request is read; without an id the endpoint
\* returns nothing, with one it reads the feature set's data.
StepProcessBegin(w, id, clean) ==
    [w |-> w,
     l |-> IF id = ""
           THEN [IdleReq EXCEPT !.op = "process", !.pc = "done", !.id = id]
           ELSE [IdleReq EXCEPT !.op = "process", !.pc = "process_write", !.id = id,
                                !.clean = clean, !.df = w.fs_data]]

\* process(), lines 103-120: the data read is cleaned or analyzed, the result
\* written with no prev_version, and the feature set returned.
StepProcessWrite(w, l, result) ==
    [w |-> [w EXCEPT !.fs_data = result.df, !.fs_version = -1, !.fs_writer = "process"],
     l |-> [l EXCEPT !.pc = "done", !.df = result.df,
                     !.response = [kind |-> "ok", code |-> 200, actions |-> <<>>]]]

\* update_feature_set(id), lines 233-241: the body is written to the feature
\* set with no prev_version (its data when the body carries data), and the
\* feature set returned.
StepUpdateFeatureSet(w, id, body) ==
    [w |-> [w EXCEPT !.fs_data = IF body.has_df THEN body.df ELSE @,
                     !.fs_version = -1, !.fs_writer = "update_feature_set"],
     l |-> [IdleReq EXCEPT !.op = "update_feature_set", !.pc = "done", !.id = id,
                           !.response = [kind |-> "ok", code |-> 200, actions |-> <<>>]]]

-----------------------------------------------------------------------------
(* BaseRule._build_transformer_action_suggestion                           *)

\* The most suggestions built, and the most items a container comes to hold.
MaxSuggestions == 2

MaxItems == 2

STATUS_NOT_APPLIED == "not_applied"

\* The parameters whose default is a list or a mapping, in signature order.
ContainerFields == <<"action_arguments", "action_options", "action_variables", "outputs">>

FieldSet == {ContainerFields[k] : k \in 1..Len(ContainerFields)}

FieldIndex(f) == CHOOSE k \in 1..Len(ContainerFields) : ContainerFields[k] = f

\* The object a default expression ([] or {}) made when the def statement ran.
DefaultRef(f) == FieldIndex(f)

\* The object the caller of the n-th call passes for field f.
ArgumentRef(n, f) == Len(ContainerFields) * n + FieldIndex(f)

\* The value parameter f is bound to in the n-th call: the caller's argument,
\* or the default of the signature.
Bound(n, f, omitted) == IF f \in omitted THEN DefaultRef(f) ELSE ArgumentRef(n, f)

\* Lines 58-71: the suggestion holds the values its parameters are bound to.
_build_transformer_action_suggestion(n, omitted) ==
    [title |-> "title", message |-> "message", status |-> STATUS_NOT_APPLIED,
     action_payload |->
        [action_type |-> "remove",
         action_arguments |-> Bound(n, "action_arguments", omitted),
         action_code |-> "",
         action_options |-> Bound(n, "action_options", omitted),
         action_variables |-> Bound(n, "action_variables", omitted),
         axis |-> "column",
         outputs |-> Bound(n, "outputs", omitted)]]

InitFactory ==
    /\ heap = [r \in {DefaultRef(f) : f \in FieldSet} |-> <<>>]
    /\ built = <<>>
    /\ mutator = 0

\* A call of the factory that omits the fields of omitted and passes a
\* container of one item for each of the others.
BuildSuggestion(omitted) ==
    /\ Len(built) < MaxSuggestions
    /\ LET n == Len(built) + 1
           passed == {ArgumentRef(n, f) : f \in FieldSet \ omitted}
       IN  /\ heap' = [r \in DOMAIN heap \cup passed |->
                          IF r \in passed THEN <<"c1">> ELSE heap[r]]
           /\ built' = Append(built,
                  [suggestion |-> _build_transformer_action_suggestion(n, omitted),
                   omitted |-> omitted])
    /\ UNCHANGED <<mutator, serverVars, ruleVars>>

\* The holder of suggestion i adds an item to the container of its field f
\* (list.append, dict.__setitem__).
MutatePayload(i, f) ==
    /\ i \in 1..Len(built)
    /\ mutator \in {0, i}
    /\ LET r == built[i].suggestion.action_payload[f]
       IN  /\ Len(heap[r]) < MaxItems
           /\ heap' = [heap EXCEPT ![r] = Append(@, "added")]
    /\ mutator' = i
    /\ UNCHANGED <<built, serverVars, ruleVars>>

-----------------------------------------------------------------------------
(* BaseRule._filter_numeric_types and BaseRule._build_action_variables     *)

\* The most rows of a dataset.
MaxRows == 2

NUMBER == "number"

NUMBER_WITH_DECIMALS == "number_with_decimals"

TEXT == "text"

NUMBER_TYPES == {NUMBER, NUMBER_WITH_DECIMALS}

ColumnTypeTags == {NUMBER, NUMBER_WITH_DECIMALS, TEXT}

\* df.columns.tolist(): the columns of the dataset, in its order.
DfColumns == <<"zip", "age", "city">>

ColumnNames == {DfColumns[k] : k \in 1..Len(DfColumns)}

\* A missing value (None, NaN) is "nan"; "1" is an int, "1.0" a float, "x" a str.
IsNull(v) == v = "nan"

\* The column-type maps: each column has a type or is absent from the map.
ColumnTypeMaps == UNION {[S -> ColumnTypeTags] : S \in SUBSET ColumnNames}

\* The cells a column of a dataset holds, whatever type the map gives it: a
\* missing value, a number or a string.
Cells == {"nan", "1", "x"}

\* The rows of a dataset.
Rows == [ColumnNames -> Cells]

\* How the pandas of the build assigns through .loc[:, column]: it replaces
\* the column (FALSE), or sets the values into the column in place (TRUE).
SetsInPlace == BOOLEAN

NoFrame == [columns |-> <<>>, rows |-> <<>>]

\* The references of the dataframes: self.df, its copy, the result of dropna.
DfRef == 1

CopyRef == 2

DropnaRef == 3

\* The columns the Action Variable Builder is called with.
BuilderArguments ==
    {<<>>, <<"age">>, <<"city", "zip">>, <<"zip", "age", "city">>}

\* A slip: numeric_df = self.df, the dataframe itself.
DfAlias(fr, r) == [frames |-> fr, ref |-> r]

\* Line 16: self.df.copy(), a new dataframe with the same content.
DfCopy(fr, r) == [frames |-> [fr EXCEPT ![CopyRef] = fr[r]], ref |-> CopyRef]

\* float(v): of a number or a missing value; a str that is no number raises.
AstypeFloat(v) ==
    CASE v = "nan" -> [raised |-> FALSE, value |-> "nan"]
      [] v \in {"1", "1.0"} -> [raised |-> FALSE, value |-> "1.0"]
      [] OTHER -> [raised |-> TRUE, value |-> v]

\* The column holds ints only: its dtype is int64.
IsIntColumn(fr, r, column) ==
    /\ fr[r].rows /= <<>>
    /\ \A i \in 1..Len(fr[r].rows) : fr[r].rows[i][column] = "1"

\* Line 19: numeric_df.loc[:, column] = numeric_df.loc[:, column].astype(float)
\* The cast raises on a str that is no number.  The floats are assigned to
\* the column; set in place into a column of ints, they are held as ints.
CastColumn(fr, r, column, inplace) ==
    IF \E i \in 1..Len(fr[r].rows) : AstypeFloat(fr[r].rows[i][column]).raised
    THEN [raised |-> TRUE, frames |-> fr]
    ELSE IF inplace /\ IsIntColumn(fr, r, column)
    THEN [raised |-> FALSE, frames |-> fr]
    ELSE [raised |-> FALSE,
          frames |-> [fr EXCEPT ![r].rows =
                        [i \in 1..Len(@) |->
                            [@[i] EXCEPT ![column] = AstypeFloat(@).value]]]]

\* Line 22: numeric_df.drop(column, axis=1, inplace=True)
DropColumn(fr, r, column) ==
    [fr EXCEPT ![r] =
        [columns |-> SelectSeq(@.columns, LAMBDA c : c /= column),
         rows |-> [i \in 1..Len(@.rows) |->
                      [c \in DOMAIN @.rows[i] \ {column} |-> @.rows[i][c]]]]]

\* A slip: the result of dropna is not kept, every row stays.
DropnaDiscarded(fr, r) == [frames |-> [fr EXCEPT ![DropnaRef] = fr[r]], ref |-> DropnaRef]

\* Line 23: numeric_df.dropna(axis=0), a new dataframe without the rows that
\* hold a missing value.
Dropna(fr, r) ==
    [frames |-> [fr EXCEPT ![DropnaRef] =
                    [columns |-> fr[r].columns,
                     rows |-> SelectSeq(fr[r].rows,
                                 LAMBDA row : \A c \in DOMAIN row : ~IsNull(row[c]))]],
     ref |-> DropnaRef]

\* A slip: column_types.get(column), which is None for a column not in the map.
ColumnTypeGet(column_types, column) ==
    IF column \in DOMAIN column_types
    THEN [raised |-> FALSE, type |-> column_types[column]]
    ELSE [raised |-> FALSE, type |-> "None"]

\* Lines 18 and 39: self.column_types[column], a KeyError for a column not in
\* the map.
ColumnType(column_types, column) ==
    IF column \in DOMAIN column_types
    THEN [raised |-> FALSE, type |-> column_types[column]]
    ELSE [raised |-> TRUE, type |-> "None"]

\* What a helper hands back when it raises: nothing but the exception.
Raised(op, exception, key, fr) ==
    [op |-> op, raised |-> exception, key |-> key, frames |-> fr, df |-> 0,
     numeric_columns |-> <<>>, variable_set |-> <<>>]

\* Lines 17-22: the loop over self.df_columns, from its k-th column on.
RECURSIVE FilterColumns(_, _, _, _, _, _)
FilterColumns(fr, numeric_df, self, k, numeric_columns, inplace) ==
    IF k > Len(self.df_columns)
    THEN [raised |-> "None", key |-> "None", frames |-> fr,
          numeric_columns |-> numeric_columns]
    ELSE LET column == self.df_columns[k]
             t == ColumnType(self.column_types, column)
         IN  IF t.raised
             THEN [raised |-> "KeyError", key |-> column, frames |-> fr,
                   numeric_columns |-> numeric_columns]
             ELSE IF t.type \in NUMBER_TYPES
             THEN LET cast == CastColumn(fr, numeric_df, column, inplace)
                  IN  IF cast.raised
                      THEN [raised |-> "ValueError", key |-> column, frames |-> fr,
                            numeric_columns |-> numeric_columns]
                      ELSE FilterColumns(cast.frames, numeric_df, self, k + 1,
                                         Append(numeric_columns, column), inplace)
             ELSE FilterColumns(DropColumn(fr, numeric_df, column), numeric_df,
                                self, k + 1, numeric_columns, inplace)

\* Lines 14-24: _filter_numeric_types
_filter_numeric_types(fr, self, inplace) ==
    LET copy == DfCopy(fr, self.df)
        loop == FilterColumns(copy.frames, copy.ref, self, 1, <<>>, inplace)
    IN  IF loop.raised /= "None"
        THEN Raised("filter", loop.raised, loop.key, loop.frames)
        ELSE LET kept == Dropna(loop.frames, copy.ref)
             IN  [op |-> "filter", raised |-> "None", key |-> "None",
                  frames |-> kept.frames, df |-> kept.ref,
                  numeric_columns |-> loop.numeric_columns,
                  variable_set |-> <<>>]

\* Lines 36-43: the loop over columns, from its k-th on; the mapping built is
\* a function of the column names.
RECURSIVE BuildVariables(_, _, _, _)
BuildVariables(self, columns, k, variable_set) ==
    IF k > Len(columns)
    THEN [raised |-> "None", key |-> "None", variable_set |-> variable_set]
    ELSE LET column_name == columns[k]
             t == ColumnType(self.column_types, column_name)
         IN  IF t.raised
             THEN [raised |-> "KeyError", key |-> column_name,
                   variable_set |-> variable_set]
             ELSE BuildVariables(self, columns, k + 1,
                     [c \in DOMAIN variable_set \cup {column_name} |->
                         IF c = column_name
                         THEN [feature |-> [column_type |-> t.type,
                                            uuid |-> column_name],
                               type |-> "feature"]
                         ELSE variable_set[c]])

\* Lines 34-44: _build_action_variables
_build_action_variables(fr, self, columns) ==
    LET loop == BuildVariables(self, columns, 1, <<>>)
    IN  IF loop.raised /= "None"
        THEN Raised("build", loop.raised, loop.key, fr)
        ELSE [op |-> "build", raised |-> "None", key |-> "None", frames |-> fr,
              df |-> 0, numeric_columns |-> <<>>, variable_set |-> loop.variable_set]

NoCall ==
    [op |-> "none", raised |-> "None", key |-> "None", df |-> 0,
     numeric_columns |-> <<>>, variable_set |-> <<>>, columns |-> <<>>]

\* What a call leaves in out: its result, and the columns it was given.
Outcome(result, columns) ==
    [op |-> result.op, raised |-> result.raised, key |-> result.key,
     df |-> result.df, numeric_columns |-> result.numeric_columns,
     variable_set |-> result.variable_set, columns |-> columns]

\* Lines 8-12: BaseRule(df, column_types, statistics)
BaseRule(fr, df, column_types, statistics) ==
    [df |-> df, df_columns |-> fr[df].columns, column_types |-> column_types,
     statistics |-> statistics]

\* No rule is made: the state of the rule helpers outside their specification.
InitNoRule ==
    /\ frames = [r \in {DfRef, CopyRef, DropnaRef} |-> NoFrame]
    /\ rule = BaseRule(frames, DfRef, <<>>, [count |-> 0])
    /\ out = [filter |-> NoCall, build |-> NoCall]

\* A rule is made of a dataset, a column-type map and statistics.
InitRule ==
    \E column_types \in ColumnTypeMaps :
        \E rows \in SeqsUpTo(Rows, MaxRows) :
            /\ frames = [r \in {DfRef, CopyRef, DropnaRef} |->
                            IF r = DfRef THEN [columns |-> DfColumns, rows |-> rows]
                            ELSE NoFrame]
            /\ rule = BaseRule(frames, DfRef, column_types, [count |-> Len(rows)])
            /\ out = [filter |-> NoCall, build |-> NoCall]

CallFilterNumericTypes ==
    \E inplace \in SetsInPlace :
    LET result == _filter_numeric_types(frames, rule, inplace)
    IN  /\ frames' = result.frames
        /\ out' = [out EXCEPT !.filter = Outcome(result, rule.df_columns)]
        /\ UNCHANGED <<rule, serverVars, factoryVars>>

CallBuildActionVariables(columns) ==
    LET result == _build_action_variables(frames, rule, columns)
    IN  /\ frames' = result.frames
        /\ out' = [out EXCEPT !.build = Outcome(result, columns)]
        /\ UNCHANGED <<rule, serverVars, factoryVars>>

-----------------------------------------------------------------------------
(* The server                                                              *)

SetWorld(w) ==
    /\ stored' = w.stored
    /\ fs_data' = w.fs_data
    /\ fs_version' = w.fs_version
    /\ fs_writer' = w.fs_writer
    /\ api_key' = w.api_key

InitServer ==
    /\ stored = [p \in Pipelines |-> <<>>]
    /\ fs_data = data_orig
    /\ fs_version = -1
    /\ fs_writer = "none"
    /\ api_key = "None"
    /\ served = 0
    /\ req = [t \in Threads |-> IdleReq]

Init == InitServer /\ InitFactory /\ InitNoRule

\* launch(mage_api_key), lines 410-412: a truthy key becomes the global
\* api_key.  The sync_pipelines() that follows writes to the remote only,
\* which is no part of this state.
launch(key) ==
    /\ api_key' = IF key \notin {"None", ""} THEN key ELSE api_key
    /\ UNCHANGED <<stored, fs_data, fs_version, fs_writer, served, req>>
    /\ UNCHANGED <<factoryVars, ruleVars>>

\* Worker thread t is free to take a request: Flask serves each request on a
\* thread, and no lock is held across an endpoint.
Free(t) == req[t].pc \in {"idle", "done"} /\ served < MaxRequests

\* Thread t has taken a request, and begun its call at s.
Begun(t, s) ==
    /\ SetWorld(s.w)
    /\ served' = served + 1
    /\ req' = [req EXCEPT ![t] = s.l]
    /\ UNCHANGED <<factoryVars, ruleVars>>

\* Thread t has taken a step of its call, to s.
Taken(t, s) ==
    /\ SetWorld(s.w)
    /\ req' = [req EXCEPT ![t] = s.l]
    /\ UNCHANGED served
    /\ UNCHANGED <<factoryVars, ruleVars>>

\* PUT /pipelines/<id>: the steps of update_pipeline, one for each access to
\* the store; the threads interleave between them.
Begin(t, id, body) ==
    /\ Free(t)
    /\ Begun(t, StepBegin(World, id, body))

Transform(t) ==
    /\ req[t].pc = "transform"
    /\ Taken(t, StepTransform(World, req[t]))

PrevVersion(t) ==
    /\ req[t].pc = "prev_version"
    /\ Taken(t, StepPrevVersion(World, req[t]))

Replace(t) ==
    /\ req[t].pc = "replace"
    /\ Taken(t, StepReplace(World, req[t]))

WriteFiles(t) ==
    /\ req[t].pc = "write_files"
    /\ Taken(t, StepWriteFiles(World, req[t]))

ReplaceOnly(t) ==
    /\ req[t].pc = "replace_only"
    /\ Taken(t, StepReplaceOnly(World, req[t]))

\* What the call of sync_pipeline can do in this state: it is only made, and
\* so can only raise, when a key is set.
SyncChoices == IF api_key = "None" THEN {"ok"} ELSE SyncOutcomes

Sync(t) ==
    /\ req[t].pc = "sync"
    /\ \E outcome \in SyncChoices : Taken(t, StepSync(World, req[t], outcome))

Respond(t) ==
    /\ req[t].pc = "respond"
    /\ Taken(t, StepRespond(World, req[t]))

Rescue(t) ==
    /\ req[t].pc = "rescue"
    /\ Taken(t, StepRescue(World, req[t]))

\* POST /process: the read of the feature set's data and the write of the
\* result are two accesses to the store.
ProcessBegin(t, id, clean) ==
    /\ Free(t)
    /\ Begun(t, StepProcessBegin(World, id, clean))

ProcessWrite(t) ==
    /\ req[t].pc = "process_write"
    /\ \E result \in CleanResults(req[t].df, req[t].clean) :
          Taken(t, StepProcessWrite(World, req[t], result))

\* PUT /feature_sets/<id>: one write.
update_feature_set(t, id, body) ==
    /\ Free(t)
    /\ Begun(t, StepUpdateFeatureSet(World, id, body))

Next ==
    \/ \E key \in LaunchKeys : launch(key)
    \/ \E t \in Threads, id \in Pipelines, body \in Bodies : Begin(t, id, body)
    \/ \E t \in Threads : Transform(t)
    \/ \E t \in Threads : PrevVersion(t)
    \/ \E t \in Threads : Replace(t)
    \/ \E t \in Threads : WriteFiles(t)
    \/ \E t \in Threads : ReplaceOnly(t)
    \/ \E t \in Threads : Sync(t)
    \/ \E t \in Threads : Respond(t)
    \/ \E t \in Threads : Rescue(t)
    \/ \E t \in Threads, id \in ProcessIds, clean \in BOOLEAN : ProcessBegin(t, id, clean)
    \/ \E t \in Threads : ProcessWrite(t)
    \/ \E t \in Threads, body \in FeatureSetBodies : update_feature_set(t, "f1", body)

\* The server: its worker threads take requests and run them step by step.
Spec == Init /\ [][Next]_vars

-----------------------------------------------------------------------------
(* The suggestion factory called and its suggestions' containers mutated   *)

NextFactory ==
    \/ \E omitted \in SUBSET FieldSet : BuildSuggestion(omitted)
    \/ \E i \in 1..MaxSuggestions, f \in FieldSet : MutatePayload(i, f)

SpecFactory == Init /\ [][NextFactory]_vars

-----------------------------------------------------------------------------
(* The helpers of a rule called on every dataset and column-type map       *)

InitWithRule == InitServer /\ InitFactory /\ InitRule

NextRule ==
    \/ CallFilterNumericTypes
    \/ \E columns \in BuilderArguments : CallBuildActionVariables(columns)

SpecRule == InitWithRule /\ [][NextRule]_vars

-----------------------------------------------------------------------------
(* Claims about update_pipeline                                            *)

HasFeatureSet(id) == FeatureSetIdOf(id) /= "None"

\* The pipeline that belongs to the feature set.
FeatureSetPipeline == CHOOSE p \in Pipelines : HasFeatureSet(p)

\* Thread t runs, or has last run, a call of update_pipeline.
Updates(t) == req[t].op = "update_pipeline"

\* The call of thread t is past its replacement and its feature set write.
PastWrites(t) == req[t].replaced /\ req[t].pc \in {"sync", "respond", "rescue", "done"}

\* No request is in flight.
Quiet == \A t \in Threads : req[t].pc \in {"idle", "done"}

\* The list a body submits: an absent 'actions' field counts as the empty list.
SubmittedBy(body) == IF body.has_actions THEN body.actions ELSE <<>>

\* The stored list is the submitted one, action for action: the same length,
\* the same type and column in each place, and every title given kept.
IsSubmitted(list, submitted) ==
    /\ Len(list) = Len(submitted)
    /\ \A i \in 1..Len(submitted) :
          /\ list[i].action_type = submitted[i].action_type
          /\ list[i].column = submitted[i].column
          /\ submitted[i].title /= "" => list[i].title = submitted[i].title

\* The call of sync_pipeline that the request made has raised.
SyncFailed(l) == Len(l.sync_log) > 0 /\ l.sync = "raise"

\* C2 as stated: whenever a request has replaced a stored action list, with
\* or without a feature set, a prev_version was recorded and it is the length
\* of the list that the replacement superseded.
C2_PrevVersionRecordedOnEveryReplacement ==
    \A t \in Threads :
        (Updates(t) /\ PastWrites(t)) =>
            (req[t].recorded /= -1 /\ req[t].recorded = req[t].superseded)

\* C3: a step changes a stored action list only as the replacement made by a
\* call of update_pipeline on that pipeline, and the list then stored is the
\* complete list that request submitted (the empty list when it has no
\* 'actions' field), in order and length, whatever was stored before.
C3_WholesaleReplacement ==
    [][\A p \in Pipelines :
          stored'[p] /= stored[p] =>
              \E t \in Threads :
                  /\ Updates(t) /\ req[t].id = p
                  /\ ~req[t].replaced /\ req'[t].replaced
                  /\ IsSubmitted(stored'[p], SubmittedBy(req[t].body))]_vars

\* A stored list of two actions has been replaced by the empty list of a
\* request without an 'actions' field.
C3_Witness ==
    \E t \in Threads :
        /\ Updates(t) /\ req[t].pc = "done" /\ req[t].replaced
        /\ req[t].superseded = 2
        /\ ~req[t].body.has_actions /\ stored[req[t].id] = <<>>

\* C4: when transform raises, the steps of the request from there to its
\* answer change neither the stored action lists nor the feature set's stored
\* result and version, the request has made no replacement and no call of
\* sync_pipeline, and it answers with an error.
C4_TransformFailureAborts ==
    [][\A t \in Threads :
          (req'[t] /= req[t] /\ req'[t].exception = "transform") =>
              /\ stored' = stored
              /\ fs_data' = fs_data
              /\ fs_version' = fs_version
              /\ ~req'[t].replaced
              /\ req'[t].recorded = -1
              /\ req'[t].sync_log = <<>>
              /\ req'[t].pc = "done" => req'[t].response.kind = "error"]_vars

\* A request whose actions cannot be replayed has been answered, with a key
\* set and a list stored before it.
C4_Witness ==
    \E t \in Threads :
        /\ req[t].pc = "done" /\ req[t].exception = "transform"
        /\ api_key /= "None" /\ stored[req[t].id] /= <<>>

\* C5 as stated: a request whose sync call fails has made its replacement
\* and still answers with the updated pipeline.
C5_SyncFailureNonFatal ==
    \A t \in Threads :
        (req[t].pc = "done" /\ SyncFailed(req[t])) =>
            /\ req[t].replaced
            /\ req[t].response.kind = "ok"
            /\ req[t].response.actions = req[t].actions

\* C6: a request calls sync_pipeline at most once, with a key that is set,
\* and only after it has replaced the stored action list.
C6_SyncOnceAfterReplacement ==
    \A t \in Threads :
        /\ Len(req[t].sync_log) <= 1
        /\ \A i \in 1..Len(req[t].sync_log) :
              /\ req[t].sync_log[i].key /= "None"
              /\ req[t].sync_log[i].replaced

\* A request has replaced the list and made its one sync call, and has been
\* answered.
C6_Witness ==
    \E t \in Threads :
        /\ req[t].pc = "done" /\ req[t].replaced /\ Len(req[t].sync_log) = 1
        /\ req[t].response.kind = "ok"

\* C7 as stated: with two requests in flight, each recorded prev_version is
\* the length of the list that request superseded, and once two requests on
\* the pipeline of the feature set have made their writes, with no write of
\* another endpoint after them, the stored list, the feature set's result and
\* its version are those of one of them.
C7_ConcurrentUpdatesSerializable ==
    /\ \A t \in Threads :
          (Updates(t) /\ req[t].recorded /= -1) => req[t].recorded = req[t].superseded
    /\ ((\A t \in Threads : Updates(t) /\ req[t].id = FeatureSetPipeline
                                /\ req[t].recorded /= -1)
          /\ fs_writer = "update_pipeline") =>
          \E t \in Threads :
              /\ stored[FeatureSetPipeline] = req[t].actions
              /\ fs_data = req[t].df
              /\ fs_version = req[t].recorded

\* C11 as stated: whenever no request is in flight and the feature set's
\* latest write, if any, is that of update_pipeline, the stored action list of
\* the feature set's pipeline can be replayed over the feature set's original
\* data and the feature set's latest written result is the result of that
\* replay; a request on that pipeline that has ended has made the replacement
\* and the feature set's write both, or neither.
C11_PipelineAndFeatureSetConsistent ==
    (Quiet /\ fs_writer \in {"none", "update_pipeline"}) =>
        LET replay == transform(data_orig, stored[FeatureSetPipeline])
        IN  /\ ~replay.raised
            /\ fs_data = clean_data(replay.df).df
            /\ \A t \in Threads :
                  (Updates(t) /\ req[t].pc = "done" /\ req[t].id = FeatureSetPipeline) =>
                      (req[t].replaced <=> req[t].recorded /= -1)

-----------------------------------------------------------------------------
(* Claims about the suggestion factory                                     *)

\* C1 as stated: whatever calls of the factory and mutations of one
\* suggestion's payload containers have happened, every field that the call
\* of another suggestion omitted is an empty container.
C1_OmittedFieldsIndependent ==
    \A i \in 1..Len(built) :
        i /= mutator =>
            \A f \in built[i].omitted :
                heap[built[i].suggestion.action_payload[f]] = <<>>

-----------------------------------------------------------------------------
(* Claims about the helpers of a rule                                      *)

\* The dataset the rule was made of.
Input == frames[rule.df]

\* The column-type map covers the columns.
Covers(columns) == \A k \in 1..Len(columns) : columns[k] \in DOMAIN rule.column_types

\* The first of the columns that the column-type map lacks.
FirstMissing(columns) ==
    columns[CHOOSE k \in 1..Len(columns) :
                /\ columns[k] \notin DOMAIN rule.column_types
                /\ \A j \in 1..(k - 1) : columns[j] \in DOMAIN rule.column_types]

\* The columns of the dataset whose type is a number type, in its order.
NumericColumns ==
    SelectSeq(rule.df_columns, LAMBDA c : rule.column_types[c] \in NUMBER_TYPES)

Retained == {NumericColumns[k] : k \in 1..Len(NumericColumns)}

\* The rows of the dataset with no missing value in a retained column.
CompleteRows == SelectSeq(Input.rows, LAMBDA row : \A c \in Retained : ~IsNull(row[c]))

\* A number as a float.
FloatOf(v) == IF v = "1" THEN "1.0" ELSE v

\* The columns of a number type, among the first n of the dataset, that hold
\* a string: the cast to float raises on them.
Uncastable(n) ==
    {k \in 1..n :
        /\ rule.df_columns[k] \in DOMAIN rule.column_types
        /\ rule.column_types[rule.df_columns[k]] \in NUMBER_TYPES
        /\ \E i \in 1..Len(Input.rows) : Input.rows[i][rule.df_columns[k]] = "x"}

\* The first of them.
FirstUncastable(n) ==
    rule.df_columns[CHOOSE k \in Uncastable(n) : \A j \in Uncastable(n) : k <= j]

\* What _filter_numeric_types returned is the numeric projection of the
\* dataset: numeric_columns and the columns of numeric_df are the columns of
\* a number type in the dataset's order; numeric_df has no missing value; and
\* its rows are, in order, the rows of the dataset without a missing value in
\* a retained column, with the dataset's numbers for values.
IsProjection(o) ==
    /\ o.raised = "None"
    /\ o.numeric_columns = NumericColumns
    /\ LET numeric_df == frames[o.df]
       IN  /\ numeric_df.columns = NumericColumns
           /\ Len(numeric_df.rows) = Len(CompleteRows)
           /\ Len(numeric_df.rows) <= Len(Input.rows)
           /\ \A i \in 1..Len(numeric_df.rows) :
                 /\ DOMAIN numeric_df.rows[i] = Retained
                 /\ \A c \in Retained :
                       /\ ~IsNull(numeric_df.rows[i][c])
                       /\ numeric_df.rows[i][c] \in
                              {CompleteRows[i][c], FloatOf(CompleteRows[i][c])}

\* What a helper did when it raised exception on column: it returned nothing.
FailedOn(o, exception, column) ==
    /\ o.raised = exception
    /\ o.key = column
    /\ o.df = 0
    /\ o.numeric_columns = <<>>
    /\ o.variable_set = <<>>

\* C8 as stated: for every dataset whose columns the column-type map covers,
\* _filter_numeric_types returns the numeric projection of the dataset.
C8_NumericProjectionOfEveryDataset ==
    (out.filter.op = "filter" /\ Covers(rule.df_columns)) => IsProjection(out.filter)

\* C8 amended: for a dataset whose columns the column-type map covers,
\* _filter_numeric_types returns the numeric projection of the dataset when
\* no column of a number type holds a value that is no number; when one does,
\* it raises the ValueError of the cast on the first such column and returns
\* nothing.
C8_NumericProjection ==
    (out.filter.op = "filter" /\ Covers(rule.df_columns)) =>
        IF Uncastable(Len(rule.df_columns)) = {}
        THEN IsProjection(out.filter)
        ELSE FailedOn(out.filter, "ValueError", FirstUncastable(Len(rule.df_columns)))

\* Of three columns two are retained, in their order, the column dropped
\* between them holding a string, and of two rows one is dropped for a
\* missing value.
C8_Witness ==
    /\ out.filter.op = "filter" /\ out.filter.raised = "None"
    /\ out.filter.numeric_columns = <<"zip", "city">>
    /\ Len(Input.rows) = 2
    /\ Input.rows[1]["age"] = "x"
    /\ Len(frames[out.filter.df].rows) = 1

\* C9: a call of a helper, returning or raising, leaves the rule's dataset
\* with its columns, rows and values, and leaves self.df_columns,
\* self.column_types and self.statistics.
C9_InputNotMutated ==
    [][/\ rule' = rule
       /\ frames'[rule.df] = frames[rule.df]]_vars

\* _filter_numeric_types has returned after dropping a column and a row from
\* its copy, and the dataset still has them.
C9_Witness ==
    /\ out.filter.op = "filter" /\ out.filter.raised = "None"
    /\ Len(frames[out.filter.df].columns) < Len(Input.columns)
    /\ Len(frames[out.filter.df].rows) < Len(Input.rows)
    /\ Input.columns = rule.df_columns

\* What a helper did when a column it was given is absent from column_types:
\* it raised the KeyError of that column (the first such) and returned nothing.
FailedOnMissing(o) == FailedOn(o, "KeyError", FirstMissing(o.columns))

\* The place of the first column of the dataset that the map lacks.
FirstMissingAt ==
    CHOOSE k \in 1..Len(rule.df_columns) : rule.df_columns[k] = FirstMissing(rule.df_columns)

\* C10 as stated: when a column of the dataset, or a column passed to
\* _build_action_variables, is absent from column_types, the helper raises a
\* KeyError that names the missing column and returns no projection and no
\* descriptor.
C10_MissingColumnIdentified ==
    /\ (out.filter.op = "filter" /\ ~Covers(out.filter.columns)) =>
          FailedOnMissing(out.filter)
    /\ (out.build.op = "build" /\ ~Covers(out.build.columns)) =>
          FailedOnMissing(out.build)

\* C10 amended: when a column passed to _build_action_variables is absent
\* from column_types, it raises the KeyError of the first such column and
\* returns no descriptor.  When a column of the dataset is absent,
\* _filter_numeric_types returns no projection: it raises the KeyError of
\* the first such column, unless a column of a number type before it holds a
\* value that is no number, and then it raises the ValueError of the cast on
\* the first of those.
C10_MissingColumnFails ==
    /\ (out.filter.op = "filter" /\ ~Covers(out.filter.columns)) =>
          IF Uncastable(FirstMissingAt - 1) = {}
          THEN FailedOnMissing(out.filter)
          ELSE FailedOn(out.filter, "ValueError", FirstUncastable(FirstMissingAt - 1))
    /\ (out.build.op = "build" /\ ~Covers(out.build.columns)) =>
          FailedOnMissing(out.build)

\* Both helpers have failed on a missing column that follows a column that
\* the map has.
C10_Witness ==
    /\ out.filter.op = "filter" /\ out.filter.raised = "KeyError"
    /\ out.filter.key = "age"
    /\ out.build.op = "build" /\ out.build.raised = "KeyError"
    /\ out.build.key = "age" /\ out.build.columns = <<"zip", "age", "city">>

=============================================================================
